---- MODULE Spec2Model ----
(***************************************************************************)
(* Model of the Unsealer decrypt-and-parse pipeline                        *)
(* (src/unsealer_samsung/decrypter.py, src/unsealer_samsung/cli.py).       *)
(*                                                                         *)
(* A Python str is a sequence of one-character strings, so that strip,     *)
(* split, startswith, the regular expression of clean_android_url and the  *)
(* base64 alphabet are computed character by character.  A Python value    *)
(* stored in a Record is a tagged record (str, list of str, or a parsed    *)
(* JSON value).                                                            *)
(***************************************************************************)
EXTENDS Integers, Sequences, FiniteSets, TLC

VARIABLES
    pc,                  \* which function is running and where it stands
    blocks,              \* parse_decrypted_content: blocks enumerated so far
    all_tables,          \* parse_decrypted_content: table name -> entries
    unknown_table_count, \* parse_decrypted_content: unknown blocks counted
    steps,               \* per block: what the loop body did with it
    warnings,            \* block indexes (0-based) printed to stderr
    outcome,             \* how the running function ended: kind and message
    url_in,              \* clean_android_url: argument
    url_out,             \* clean_android_url: return value
    file,                \* the input file handed to the CLI
    args,                \* argparse namespace: format and preview
    console,             \* what _process_decryption printed last
    exit_code            \* process exit status set by _process_decryption

vars == <<pc, blocks, all_tables, unknown_table_count, steps, warnings,
          outcome, url_in, url_out, file, args, console, exit_code>>

parseVars == <<blocks, all_tables, unknown_table_count, steps, warnings>>
urlVars == <<url_in, url_out>>
cliVars == <<file, args, console, exit_code>>

----------------------------------------------------------------------------
(* Bounds of the model                                                     *)

MaxBlocks == 3   \* blocks in one plaintext document
MaxRows == 2     \* data rows in one block
MaxTail == 4     \* characters after the scheme of a clean_android_url input
MaxDoc == 2      \* blocks in the plaintext of an input file
MaxCipherBlocks == 2   \* 16-byte blocks of ciphertext in an input file

----------------------------------------------------------------------------
(* Python str primitives on character sequences                            *)

Printable ==
    <<" ", "!", "\"", "#", "$", "%", "&", "'", "(", ")", "*", "+", ",", "-",
      ".", "/", "0", "1", "2", "3", "4", "5", "6", "7", "8", "9", ":", ";",
      "<", "=", ">", "?", "@", "A", "B", "C", "D", "E", "F", "G", "H", "I",
      "J", "K", "L", "M", "N", "O", "P", "Q", "R", "S", "T", "U", "V", "W",
      "X", "Y", "Z", "[", "\\", "]", "^", "_", "grave", "a", "b", "c", "d", "e",
      "f", "g", "h", "i", "j", "k", "l", "m", "n", "o", "p", "q", "r", "s",
      "t", "u", "v", "w", "x", "y", "z", "{", "|", "}", "~">>

\* chr() of an ASCII byte; control characters and the grave accent (which a
\* string literal cannot hold) get a name of their own
Chr(b) == IF b \in 32..126 THEN Printable[b - 31] ELSE "ctl" \o ToString(b)

Whitespace == {" "} \cup {Chr(b) : b \in (9..13) \cup (28..31)}

Letters == {Printable[i] : i \in (34..59) \cup (66..91)}

Digits == {Printable[i] : i \in 17..26}

Slice(s, a, b) == [i \in 1..(IF b >= a THEN b - a + 1 ELSE 0) |-> s[a + i - 1]]

StartsWith(s, p) == Len(s) >= Len(p) /\ Slice(s, 1, Len(p)) = p

EndsWith(s, p) == Len(s) >= Len(p) /\ Slice(s, Len(s) - Len(p) + 1, Len(s)) = p

RECURSIVE LStrip(_)
LStrip(s) == IF s # <<>> /\ Head(s) \in Whitespace THEN LStrip(Tail(s)) ELSE s

RECURSIVE RStrip(_)
RStrip(s) ==
    IF s # <<>> /\ s[Len(s)] \in Whitespace
    THEN RStrip(Slice(s, 1, Len(s) - 1)) ELSE s

Strip(s) == RStrip(LStrip(s))

\* s.replace(old, new): leftmost non-overlapping occurrences
RECURSIVE Replace(_, _, _)
Replace(s, old, new) ==
    IF s = <<>> THEN <<>>
    ELSE IF StartsWith(s, old)
         THEN new \o Replace(Slice(s, Len(old) + 1, Len(s)), old, new)
         ELSE <<Head(s)>> \o Replace(Tail(s), old, new)

\* s.split(sep): the list of parts, empty parts included
RECURSIVE SplitFrom(_, _, _)
SplitFrom(s, sep, cur) ==
    IF s = <<>> THEN <<cur>>
    ELSE IF StartsWith(s, sep)
         THEN <<cur>> \o SplitFrom(Slice(s, Len(sep) + 1, Len(s)), sep, <<>>)
         ELSE SplitFrom(Tail(s), sep, Append(cur, Head(s)))

Split(s, sep) == SplitFrom(s, sep, <<>>)

\* re.search(r"\.[a-zA-Z]{2,}", s)
HasDotLetters(s) ==
    \E i \in 1..Len(s) :
        /\ i + 2 <= Len(s)
        /\ s[i] = "."
        /\ s[i + 1] \in Letters
        /\ s[i + 2] \in Letters

----------------------------------------------------------------------------
(* Python values held by a Record                                          *)

PyStr(s) == [t |-> "str", s |-> s, l |-> <<>>, j |-> "none"]

PyList(l) == [t |-> "list", s |-> <<>>, l |-> l, j |-> "none"]

PyJson(kind) == [t |-> "json", s |-> <<>>, l |-> <<>>, j |-> kind]

\* values a Python `not v` test accepts as empty: "", [], {}, None
IsEmptyValue(v) ==
    \/ v.t = "str" /\ v.s = <<>>
    \/ v.t = "list" /\ v.l = <<>>
    \/ v.t = "json" /\ v.j \in {"null", "empty_object", "empty_array", "empty_string"}

----------------------------------------------------------------------------
(* base64.b64decode(...).decode("utf-8")                                   *)

B64Alphabet ==
    <<"A", "B", "C", "D", "E", "F", "G", "H", "I", "J", "K", "L", "M", "N",
      "O", "P", "Q", "R", "S", "T", "U", "V", "W", "X", "Y", "Z", "a", "b",
      "c", "d", "e", "f", "g", "h", "i", "j", "k", "l", "m", "n", "o", "p",
      "q", "r", "s", "t", "u", "v", "w", "x", "y", "z", "0", "1", "2", "3",
      "4", "5", "6", "7", "8", "9", "+", "/">>

B64Value(c) == (CHOOSE i \in 1..64 : B64Alphabet[i] = c) - 1

IsB64Char(c) == \E i \in 1..64 : B64Alphabet[i] = c

\* binascii.a2b_base64 in its default, non-strict mode: characters outside
\* the alphabet are discarded, a complete pad sequence ends the input, and an
\* incomplete final quad raises binascii.Error
RECURSIVE A2B(_, _, _, _, _, _)
A2B(s, i, quad_pos, leftchar, pads, out) ==
    IF i > Len(s)
    THEN IF quad_pos # 0 THEN [ok |-> FALSE, bytes |-> <<>>]
                         ELSE [ok |-> TRUE, bytes |-> out]
    ELSE IF s[i] = "="
    THEN IF quad_pos >= 2 /\ quad_pos + pads + 1 >= 4
         THEN [ok |-> TRUE, bytes |-> out]
         ELSE A2B(s, i + 1, quad_pos, leftchar,
                  IF quad_pos >= 2 THEN pads + 1 ELSE pads, out)
    ELSE IF ~IsB64Char(s[i])
    THEN A2B(s, i + 1, quad_pos, leftchar, pads, out)
    ELSE LET v == B64Value(s[i]) IN
         CASE quad_pos = 0 -> A2B(s, i + 1, 1, v, 0, out)
           [] quad_pos = 1 ->
                A2B(s, i + 1, 2, v % 16, 0, Append(out, leftchar * 4 + v \div 16))
           [] quad_pos = 2 ->
                A2B(s, i + 1, 3, v % 4, 0, Append(out, leftchar * 16 + v \div 4))
           [] quad_pos = 3 ->
                A2B(s, i + 1, 0, 0, 0, Append(out, leftchar * 64 + v))

b64decode(s) == A2B(s, 1, 0, 0, 0, <<>>)

\* bytes.decode("utf-8") for buffers of ASCII bytes; a byte above 0x7F only
\* occurs as a lone, invalid byte in the inputs enumerated here
Utf8Decode(bytes) ==
    IF \E i \in 1..Len(bytes) : bytes[i] >= 128
    THEN [ok |-> FALSE, text |-> <<>>]
    ELSE [ok |-> TRUE, text |-> [i \in 1..Len(bytes) |-> Chr(bytes[i])]]

NULL_SENTINEL ==
    <<"J", "i", "Y", "m", "T", "l", "V", "M", "T", "C", "Y", "m", "J", "g",
      "=", "=">>

safe_b64_decode(b64_string) ==
    IF b64_string = <<>> \/ Strip(b64_string) \in {<<>>, NULL_SENTINEL}
    THEN <<>>
    ELSE LET bin == b64decode(b64_string) IN
         IF ~bin.ok THEN b64_string
         ELSE LET txt == Utf8Decode(bin.bytes) IN
              IF txt.ok THEN txt.text ELSE b64_string

----------------------------------------------------------------------------
(* _parse_json_field                                                       *)

\* json.loads on the documents the inputs contain: the three literals, an
\* unsigned integer, the empty containers, the empty string and one object;
\* any other text raises json.JSONDecodeError
JsonLoads(s) ==
    CASE s = <<"n", "u", "l", "l">> -> [ok |-> TRUE, kind |-> "null"]
      [] s = <<"t", "r", "u", "e">> -> [ok |-> TRUE, kind |-> "bool"]
      [] s = <<"f", "a", "l", "s", "e">> -> [ok |-> TRUE, kind |-> "bool"]
      [] s = <<"{", "}">> -> [ok |-> TRUE, kind |-> "empty_object"]
      [] s = <<"[", "]">> -> [ok |-> TRUE, kind |-> "empty_array"]
      [] s = <<"\"", "\"">> -> [ok |-> TRUE, kind |-> "empty_string"]
      [] s = <<"{", "\"", "k", "\"", ":", "1", "}">> -> [ok |-> TRUE, kind |-> "object"]
      [] /\ s # <<>>
         /\ \A i \in 1..Len(s) : s[i] \in Digits
         /\ (Len(s) > 1 => s[1] # "0") -> [ok |-> TRUE, kind |-> "number"]
      [] OTHER -> [ok |-> FALSE, kind |-> "none"]

parse_json_field(field_value) ==
    LET stripped == Strip(Replace(field_value, <<"\\", "\"">>, <<"\"">>))
        cleaned_value ==
            IF StartsWith(stripped, <<"\"">>) /\ EndsWith(stripped, <<"\"">>)
            THEN Slice(stripped, 2, Len(stripped) - 1)
            ELSE stripped
        loaded == JsonLoads(cleaned_value)
    IN IF loaded.ok THEN PyJson(loaded.kind) ELSE PyStr(field_value)

----------------------------------------------------------------------------
(* _parse_multi_b64_field                                                  *)

RECURSIVE DecodeParts(_)
DecodeParts(parts) ==
    IF parts = <<>> THEN <<>>
    ELSE LET part == Head(parts)
             b64_part == Split(part, <<"#">>)[1]
             decoded == safe_b64_decode(b64_part)
         IN IF part = <<>> \/ decoded = <<>>
            THEN DecodeParts(Tail(parts))
            ELSE <<decoded>> \o DecodeParts(Tail(parts))

parse_multi_b64_field(field_value) ==
    IF field_value = <<>> THEN <<>>
    ELSE DecodeParts(Split(field_value, <<"&", "&", "&">>))

----------------------------------------------------------------------------
(* clean_android_url                                                       *)

HTTP == <<"h", "t", "t", "p">>

ANDROID_SCHEME == <<"a", "n", "d", "r", "o", "i", "d", ":", "/", "/">>

clean_android_url(url) ==
    IF url = <<>> \/ HasDotLetters(url) \/ StartsWith(url, HTTP)
    THEN url
    ELSE IF StartsWith(url, ANDROID_SCHEME)
         THEN LET parts == Split(url, <<"@">>) IN parts[Len(parts)]
         ELSE url

----------------------------------------------------------------------------
(* csv.DictReader over one block                                           *)
(*                                                                         *)
(* A block is its header line and its data lines, already cut at ";".      *)
(* Header cells are field names; data cells are character sequences.  No   *)
(* cell holds a ";" or a quote and no data line is blank.  OVERSIZE is a   *)
(* cell longer than csv.field_size_limit(): reading the line that holds it *)
(* raises csv.Error.                                                       *)

OVERSIZE_NAME == "OVERSIZE"

OVERSIZE_CELL == <<"OVERSIZE">>

EmptyBlock == [header |-> <<>>, rows |-> <<>>]

RECURSIVE SumSeparators(_)
SumSeparators(lines) ==
    IF lines = <<>> THEN 0
    ELSE (Len(Head(lines)) - 1) + SumSeparators(Tail(lines))

\* clean_block.count(";")
CountSemicolons(block) ==
    IF block.header = <<>> THEN 0
    ELSE (Len(block.header) - 1) + SumSeparators(block.rows)

HeaderRaises(block) == \E i \in 1..Len(block.header) : block.header[i] = OVERSIZE_NAME

RowRaises(row) == \E i \in 1..Len(row) : row[i] = OVERSIZE_CELL

\* row.get(field) on the dict DictReader builds: zip(fieldnames, row), then
\* restval None for the field names the row is too short for; cells beyond
\* the header go under the key None, which is no field name
RowGet(headers, row, field) ==
    LET hits == {i \in 1..Len(headers) : headers[i] = field} IN
    IF hits = {} \/ \E i \in hits : i > Len(row)
    THEN [present |-> FALSE, value |-> <<>>]
    ELSE [present |-> TRUE,
          value |-> row[CHOOSE i \in hits : \A k \in hits : k <= i]]

----------------------------------------------------------------------------
(* parse_decrypted_content                                                 *)

TABLE_SCHEMA ==
    << [name |-> "logins",
        fingerprint |-> <<"origin_url", "username_value", "password_value">>,
        json_fields |-> <<"otp">>,
        multi_b64_fields |-> <<>>,
        useful_fields |-> <<"title", "username_value", "password_value",
                            "origin_url", "credential_memo", "otp">>],
       [name |-> "identities",
        fingerprint |-> <<"id_card_detail", "telephone_number_list",
                          "email_address_list">>,
        json_fields |-> <<"id_card_detail">>,
        multi_b64_fields |-> <<"telephone_number_list", "email_address_list">>,
        useful_fields |-> <<"name", "id_card_detail", "telephone_number_list",
                            "email_address_list">>],
       [name |-> "addresses",
        fingerprint |-> <<"full_address", "street_address", "country_code">>,
        json_fields |-> <<>>,
        multi_b64_fields |-> <<>>,
        useful_fields |-> <<"full_name", "company_name", "street_address",
                            "city", "state", "zipcode", "country_code",
                            "phone_number", "email">>],
       [name |-> "notes",
        fingerprint |-> <<"note_title", "note_detail">>,
        json_fields |-> <<>>,
        multi_b64_fields |-> <<>>,
        useful_fields |-> <<"note_title", "note_detail">>] >>

Range(seq) == {seq[i] : i \in 1..Len(seq)}

\* lines 162-168: the first schema, in declared order, whose fingerprint
\* fields are all among the headers; 0 when there is none
MatchSchema(headers) ==
    LET matching == {i \in 1..Len(TABLE_SCHEMA) :
                        Range(TABLE_SCHEMA[i].fingerprint) \subseteq Range(headers)}
    IN IF matching = {} THEN 0
       ELSE CHOOSE i \in matching : \A k \in matching : i <= k

\* the name formed from the count before its increment
UnknownTableName_ZeroBased(n) == "unknown_data_" \o ToString(n - 1)

UnknownTableName(n) == "unknown_data_" \o ToString(n)

IsRowCountMarker(headers) == "24" \in Range(headers) /\ Len(headers) = 1

\* lines 179-196: the entry built from one row
DecodeField(schema, field, raw_value) ==
    IF field \in Range(schema.json_fields) THEN parse_json_field(raw_value)
    ELSE IF field \in Range(schema.multi_b64_fields)
         THEN PyList(parse_multi_b64_field(raw_value))
    ELSE IF field = "origin_url" THEN PyStr(clean_android_url(raw_value))
    ELSE PyStr(raw_value)

KeepsField(headers, row, field) ==
    LET raw_value_pre == RowGet(headers, row, field) IN
    raw_value_pre.present /\ safe_b64_decode(raw_value_pre.value) # <<>>

BuildEntry(schema, headers, row) ==
    [field \in {f \in Range(schema.useful_fields) : KeepsField(headers, row, f)} |->
        DecodeField(schema, field, safe_b64_decode(RowGet(headers, row, field).value))]

\* the entries of the rows that have a title only
RECURSIVE BuildEntries_TitleRequired(_, _, _)
BuildEntries_TitleRequired(schema, headers, rows) ==
    IF rows = <<>> THEN <<>>
    ELSE LET entry == BuildEntry(schema, headers, Head(rows)) IN
         (IF "title" \notin DOMAIN entry THEN <<>> ELSE <<entry>>)
            \o BuildEntries_TitleRequired(schema, headers, Tail(rows))

\* lines 177-199: the entries of the rows, in row order; an empty entry is
\* not appended
RECURSIVE BuildEntries(_, _, _)
BuildEntries(schema, headers, rows) ==
    IF rows = <<>> THEN <<>>
    ELSE LET entry == BuildEntry(schema, headers, Head(rows)) IN
         (IF DOMAIN entry = {} THEN <<>> ELSE <<entry>>)
            \o BuildEntries(schema, headers, Tail(rows))

NoEntries == <<>>

\* lines 152-210: one iteration of the loop over blocks.  kind says how the
\* iteration ended, count is unknown_table_count after it
LoopBody(block, count) ==
    IF block.header = <<>> \/ CountSemicolons(block) < 2
    THEN [kind |-> "too_small", name |-> "", entries |-> NoEntries, count |-> count]
    ELSE IF HeaderRaises(block)
    THEN [kind |-> "raised", name |-> "", entries |-> NoEntries, count |-> count]
    ELSE LET headers == block.header
             m == MatchSchema(headers)
         IN
         IF m = 0 /\ IsRowCountMarker(headers)
         THEN [kind |-> "marker", name |-> "", entries |-> NoEntries, count |-> count]
         ELSE LET newcount == IF m = 0 THEN count + 1 ELSE count
                  table_name == IF m = 0 THEN UnknownTableName(newcount)
                                ELSE TABLE_SCHEMA[m].name
                  schema == IF m = 0
                            THEN [name |-> table_name, fingerprint |-> <<>>,
                                  json_fields |-> <<>>, multi_b64_fields |-> <<>>,
                                  useful_fields |-> headers]
                            ELSE TABLE_SCHEMA[m]
              IN
              IF \E i \in 1..Len(block.rows) : RowRaises(block.rows[i])
              THEN [kind |-> "raised", name |-> table_name, entries |-> NoEntries,
                    count |-> newcount]
              ELSE [kind |-> "parsed", name |-> table_name,
                    entries |-> BuildEntries(schema, headers, block.rows),
                    count |-> newcount]

\* lines 201-202: all_tables[table_name] = table_entries
StoreTable(tables, table_name, table_entries) ==
    [n \in DOMAIN tables \cup {table_name} |->
        IF n = table_name THEN table_entries ELSE tables[n]]

\* the table stored without the test of line 201
AfterBlock_StoreEmpty(tables, step) ==
    IF step.kind = "parsed"
    THEN StoreTable(tables, step.name, step.entries)
    ELSE tables

AfterBlock(tables, step) ==
    IF step.kind = "parsed" /\ step.entries # <<>>
    THEN StoreTable(tables, step.name, step.entries)
    ELSE tables

NoTables == [n \in {} |-> <<>>]

MSG_NO_DATA == "no valuable data found"

\* lines 212-215: the end of parse_decrypted_content
ParseEnd(tables) ==
    IF DOMAIN tables = {}
    THEN [kind |-> "ValueError", msg |-> MSG_NO_DATA]
    ELSE [kind |-> "return", msg |-> ""]

----------------------------------------------------------------------------
(* Inputs: cells, rows, headers and blocks the plaintext is drawn from     *)

C_EMPTY == <<>>

\* not base64: one data character, returned as it is
C_BADB64 == <<"Q">>

\* whitespace only, and no character of the base64 alphabet: both decode to ""
C_BLANK == <<" ">>

C_PERCENT == <<"%">>

\* base64 of the byte 0xFF, which is not UTF-8: returned as it is
C_NOTUTF8 == <<"/", "w", "=", "=">>

\* base64 of A
C_A ==
    <<"Q", "Q", "=", "=">>

\* base64 of B
C_B ==
    <<"Q", "g", "=", "=">>

\* base64 of null
C_NULL ==
    <<"b", "n", "V", "s", "b", "A", "=", "=">>

\* base64 of {}
C_OBJ ==
    <<"e", "3", "0", "=">>

\* base64 of #x
C_HASHX ==
    <<"I", "3", "g", "=">>

\* base64 of QQ==#x&&&Qg==#y
C_MULTI ==
    <<"U", "V", "E", "9", "P", "S", "N", "4", "J", "i", "Y", "m", "U", "W",
      "c", "9", "P", "S", "N", "5">>

\* base64 of android://AAA==@com.example.app
C_ANDROID_DOT ==
    <<"Y", "W", "5", "k", "c", "m", "9", "p", "Z", "D", "o", "v", "L", "0",
      "F", "B", "Q", "T", "0", "9", "Q", "G", "N", "v", "b", "S", "5", "l",
      "e", "G", "F", "t", "c", "G", "x", "l", "L", "m", "F", "w", "c", "A",
      "=", "=">>

\* base64 of android://AAA==@app
C_ANDROID_APP ==
    <<"Y", "W", "5", "k", "c", "m", "9", "p", "Z", "D", "o", "v", "L", "0",
      "F", "B", "Q", "T", "0", "9", "Q", "G", "F", "w", "c", "A", "=", "=">>

H_LOGINS == <<"title", "origin_url", "username_value", "password_value", "otp">>

H_IDENTITIES ==
    <<"name", "id_card_detail", "telephone_number_list", "email_address_list">>

H_ADDRESSES == <<"full_address", "street_address", "country_code", "city">>

H_NOTES == <<"note_title", "note_detail">>

H_UNKNOWN == <<"foo", "bar", "baz">>

H_MARKER == <<"24">>

H_OVERSIZE == <<OVERSIZE_NAME, "b", "c">>

Headers ==
    {H_LOGINS, H_IDENTITIES, H_ADDRESSES, H_NOTES, H_UNKNOWN, H_MARKER, H_OVERSIZE}

\* a complete login; one with the null sentinel for a title and no otp cell;
\* one with nothing in it
L_FULL == <<C_A, C_ANDROID_APP, C_A, C_B, C_NULL>>

L_NOTITLE == <<NULL_SENTINEL, C_ANDROID_DOT, C_A, C_B>>

L_BLANK == <<C_EMPTY, NULL_SENTINEL, C_BLANK, C_PERCENT, C_EMPTY>>

I_FULL == <<C_B, C_OBJ, C_HASHX, C_MULTI>>

A_FULL == <<C_A, C_A, C_B, C_B>>

N_FULL == <<C_A, C_B>>

\* a row with one cell more than the header, and a row that cannot be read
U_EXTRA == <<C_A, C_BADB64, C_NOTUTF8, C_B>>

U_OVERSIZE == <<C_A, OVERSIZE_CELL, C_A>>

M_ROW == <<C_A, C_EMPTY, C_EMPTY>>

\* the data rows a block with the header h draws from, in this order
RowsFor(h) ==
    CASE h = H_LOGINS -> <<L_FULL, L_NOTITLE, L_BLANK>>
      [] h = H_IDENTITIES -> <<I_FULL>>
      [] h = H_ADDRESSES -> <<A_FULL>>
      [] h = H_NOTES -> <<N_FULL>>
      [] h = H_UNKNOWN -> <<U_EXTRA, U_OVERSIZE>>
      [] h = H_MARKER -> <<M_ROW>>
      [] h = H_OVERSIZE -> <<U_EXTRA>>

SeqsUpTo(S, n) == UNION {[1..k -> S] : k \in 0..n}

\* the subsequences of at most n elements of a list
RECURSIVE SubSeqs(_, _)
SubSeqs(list, n) ==
    IF list = <<>> \/ n = 0 THEN {<<>>}
    ELSE SubSeqs(Tail(list), n) \cup
         {<<Head(list)>> \o rest : rest \in SubSeqs(Tail(list), n - 1)}

BlockSet ==
    {EmptyBlock} \cup
    UNION {{[header |-> h, rows |-> rs] : rs \in SubSeqs(RowsFor(h), MaxRows)} :
              h \in Headers}

\* the loop body tabulated over the inputs, so that it is computed once for
\* each block and not once for each state
LoopBodyOf == [block \in BlockSet, count \in 0..MaxBlocks |-> LoopBody(block, count)]

----------------------------------------------------------------------------
(* Specification of parse_decrypted_content, one loop iteration per step   *)

Running == [kind |-> "running", msg |-> ""]

NoPlaintext == [padding_ok |-> FALSE, utf8_ok |-> FALSE, doc |-> <<>>]

NoFile ==
    [present |-> FALSE, encoding |-> "ok", size |-> 0, key_password |-> "",
     plaintext |-> NoPlaintext, garbage |-> NoPlaintext]

NoArgs == [password |-> "", format |-> "csv", preview |-> FALSE]

ParseInit ==
    /\ pc = "parse_loop"
    /\ blocks = <<>>
    /\ all_tables = NoTables
    /\ unknown_table_count = 0
    /\ steps = <<>>
    /\ warnings = <<>>
    /\ outcome = Running
    /\ url_in = <<>>
    /\ url_out = <<>>
    /\ file = NoFile
    /\ args = NoArgs
    /\ console = ""
    /\ exit_code = 0

\* lines 151-210: the loop body on the next block of the plaintext
ParseBlock ==
    /\ pc = "parse_loop"
    /\ Len(blocks) < MaxBlocks
    /\ \E block \in BlockSet :
          LET step == LoopBodyOf[block, unknown_table_count] IN
          /\ blocks' = Append(blocks, block)
          /\ steps' = Append(steps, step)
          /\ all_tables' = AfterBlock(all_tables, step)
          /\ unknown_table_count' = step.count
          /\ warnings' = IF step.kind = "raised"
                         THEN Append(warnings, Len(blocks))
                         ELSE warnings
    /\ UNCHANGED <<pc, outcome, urlVars, cliVars>>

\* lines 212-215: after the last block (str.split yields at least one)
ParseFinish ==
    /\ pc = "parse_loop"
    /\ Len(blocks) >= 1
    /\ outcome' = ParseEnd(all_tables)
    /\ pc' = "parse_done"
    /\ UNCHANGED <<parseVars, urlVars, cliVars>>

ParseNext == ParseBlock \/ ParseFinish

SpecParse == ParseInit /\ [][ParseNext]_vars

\* parse_decrypted_content as one call on a whole document
RECURSIVE ParseFrom(_, _, _, _)
ParseFrom(doc, i, tables, count) ==
    IF i > Len(doc) THEN tables
    ELSE LET step == LoopBodyOf[doc[i], count] IN
         ParseFrom(doc, i + 1, AfterBlock(tables, step), step.count)

ReturnOrRaise(tables) == [outcome |-> ParseEnd(tables), tables |-> tables]

parse_decrypted_content(doc) == ReturnOrRaise(ParseFrom(doc, 1, NoTables, 0))

----------------------------------------------------------------------------
(* Specification of clean_android_url as a function of its argument        *)

\* the example of the specification: android://AAA==@com.example.app
URL_EXAMPLE == safe_b64_decode(C_ANDROID_DOT)

UrlChars == {"a", "p", ".", "@", "="}

UrlInputs ==
    {URL_EXAMPLE} \cup
    {scheme \o tail : scheme \in {<<>>, ANDROID_SCHEME, HTTP},
                      tail \in SeqsUpTo(UrlChars, MaxTail)}

UrlInit ==
    /\ pc = "url_call"
    /\ url_in \in UrlInputs
    /\ url_out = <<>>
    /\ blocks = <<>>
    /\ all_tables = NoTables
    /\ unknown_table_count = 0
    /\ steps = <<>>
    /\ warnings = <<>>
    /\ outcome = Running
    /\ file = NoFile
    /\ args = NoArgs
    /\ console = ""
    /\ exit_code = 0

CleanUrl ==
    /\ pc = "url_call"
    /\ url_out' = clean_android_url(url_in)
    /\ pc' = "url_done"
    /\ UNCHANGED <<url_in, parseVars, outcome, cliVars>>

UrlNext == CleanUrl

SpecUrl == UrlInit /\ [][UrlNext]_vars

----------------------------------------------------------------------------
(* decrypt_and_parse                                                       *)
(*                                                                         *)
(* PBKDF2 and AES are not computed.  An input file is described by what    *)
(* its bytes are: whether they are base64 text, how long the decoded       *)
(* buffer is, the password it was encrypted with, the padded plaintext it  *)
(* holds, and the bytes AES yields for it under any other key.  A cipher   *)
(* block of the model stands for as many as the document needs.            *)

SALT_SIZE == 20

IV_SIZE == 16

AES_BLOCK_SIZE == 16

MSG_DECRYPT_FAILED == "decryption failed: check the password and the file"

MSG_UNKNOWN_INTERNAL == "unknown internal error: the file may be damaged"

\* the exception classes the except clause of line 251 catches
ValueErrors == {"ValueError", "UnicodeDecodeError", "binascii.Error"}

Min(a, b) == IF a <= b THEN a ELSE b

Raise(class, message) == [raised |-> class, msg |-> message, tables |-> NoTables]

\* line 248: the value or the exception of parse_decrypted_content
Returned(parsed) ==
    IF parsed.outcome.kind = "return"
    THEN [raised |-> "", msg |-> "", tables |-> parsed.tables]
    ELSE Raise(parsed.outcome.kind, parsed.outcome.msg)

\* lines 223-248: the body of the try; raised is the class of the exception
\* that leaves it, "" when it returns
DecryptBody(f, password) ==
    LET iv_len == Min(IF f.size > SALT_SIZE THEN f.size - SALT_SIZE ELSE 0, IV_SIZE)
        data_len == IF f.size > SALT_SIZE + IV_SIZE
                    THEN f.size - (SALT_SIZE + IV_SIZE) ELSE 0
        decrypted == IF password = f.key_password THEN f.plaintext ELSE f.garbage
    IN
    CASE f.encoding = "not_utf8" -> Raise("UnicodeDecodeError", "invalid start byte")
      [] f.encoding = "bad_base64" -> Raise("binascii.Error", "Incorrect padding")
      [] OTHER ->
         IF iv_len # AES_BLOCK_SIZE THEN Raise("ValueError", "Incorrect IV length")
         ELSE IF data_len % AES_BLOCK_SIZE # 0
         THEN Raise("ValueError", "Data must be padded to 16 byte boundary")
         ELSE IF data_len = 0
         THEN Raise("ValueError", "Zero-length input cannot be unpadded")
         ELSE IF ~decrypted.padding_ok
         THEN Raise("ValueError", "Padding is incorrect.")
         ELSE IF ~decrypted.utf8_ok
         THEN Raise("UnicodeDecodeError", "invalid start byte")
         ELSE Returned(parse_decrypted_content(decrypted.doc))

\* the except clauses re-raising with the message of the caught exception
ExceptClauses_Leak(body) ==
    IF body.raised = ""
    THEN [outcome |-> [kind |-> "return", msg |-> ""], tables |-> body.tables]
    ELSE [outcome |-> [kind |-> "ValueError", msg |-> body.msg], tables |-> NoTables]

\* lines 251-260: the two except clauses
ExceptClauses(body) ==
    IF body.raised = ""
    THEN [outcome |-> [kind |-> "return", msg |-> ""], tables |-> body.tables]
    ELSE IF body.raised \in ValueErrors
    THEN [outcome |-> [kind |-> "ValueError", msg |-> MSG_DECRYPT_FAILED],
          tables |-> NoTables]
    ELSE [outcome |-> [kind |-> "ValueError", msg |-> MSG_UNKNOWN_INTERNAL],
          tables |-> NoTables]

\* lines 218-260
decrypt_and_parse(f, password) == ExceptClauses(DecryptBody(f, password))

----------------------------------------------------------------------------
(* cli.py: the consumers of the Result and _process_decryption             *)

MSG_FILE_NOT_FOUND == "input file not found"

MSG_NOTHING_FOUND == "decrypted, but no login entry found"

MSG_PREVIEW_DONE == "preview mode saves no file"

MSG_SAVED == "operation succeeded"

MSG_CLI_UNKNOWN == "unknown error"

IntKey(n) == [t |-> "int", n |-> n, s |-> ""]

StrKey(name) == [t |-> "str", n |-> 0, s |-> name]

SliceKey(n) == [t |-> "slice", n |-> n, s |-> ""]

\* dict.__getitem__ on the Result, whose keys are table names: the class of
\* the exception raised, "" when the key is found.  A slice is unhashable
DictGetItem(data, key) ==
    CASE key.t = "slice" -> "TypeError"
      [] key.t = "str" /\ key.s \in DOMAIN data -> ""
      [] OTHER -> "KeyError"

\* str.__getitem__: string indices must be integers
StrGetItem(key) == IF key.t = "str" THEN "TypeError" ELSE ""

\* cli.py lines 40-46; data[0] of a found key would be a list, without keys()
save_as_csv(data) ==
    IF DOMAIN data = {} THEN ""
    ELSE IF DictGetItem(data, IntKey(0)) # "" THEN DictGetItem(data, IntKey(0))
    ELSE "AttributeError"

\* cli.py lines 48-68; iterating a dict yields its keys, which are str
save_as_txt(data) ==
    IF DOMAIN data = {} THEN "" ELSE StrGetItem(StrKey("name"))

\* cli.py lines 70-105
save_as_md(data) ==
    IF DOMAIN data = {} THEN "" ELSE StrGetItem(StrKey("name"))

\* cli.py lines 167-168
Preview(data) ==
    IF DictGetItem(data, SliceKey(5)) # "" THEN DictGetItem(data, SliceKey(5))
    ELSE StrGetItem(StrKey("name"))

\* cli.py lines 153-182: what follows the return of decrypt_and_parse
AfterDecrypt(cli_args, decrypted_data) ==
    IF DOMAIN decrypted_data = {}
    THEN [raised |-> "", console |-> MSG_NOTHING_FOUND]
    ELSE IF cli_args.preview
    THEN [raised |-> Preview(decrypted_data), console |-> MSG_PREVIEW_DONE]
    ELSE [raised |-> CASE cli_args.format = "csv" -> save_as_csv(decrypted_data)
                       [] cli_args.format = "txt" -> save_as_txt(decrypted_data)
                       [] cli_args.format = "md" -> save_as_md(decrypted_data),
          console |-> MSG_SAVED]

\* the inputs of the command line
Passwords == {"pw1", "pw2"}

Formats == {"csv", "txt", "md"}

DocBlocks ==
    {EmptyBlock,
     [header |-> H_LOGINS, rows |-> <<L_FULL>>],
     [header |-> H_LOGINS, rows |-> <<L_BLANK>>],
     [header |-> H_IDENTITIES, rows |-> <<I_FULL>>],
     [header |-> H_UNKNOWN, rows |-> <<U_OVERSIZE>>]}

Docs == SeqsUpTo(DocBlocks, MaxDoc) \ {<<>>}

BadPadding == [padding_ok |-> FALSE, utf8_ok |-> FALSE, doc |-> <<>>]

BadUtf8 == [padding_ok |-> TRUE, utf8_ok |-> FALSE, doc |-> <<>>]

TextOf(doc) == [padding_ok |-> TRUE, utf8_ok |-> TRUE, doc |-> doc]

HEADER_SIZE == SALT_SIZE + IV_SIZE

\* buffers too short, with no ciphertext, or with a ragged last block
BadSizes ==
    {0, SALT_SIZE - 1, SALT_SIZE, HEADER_SIZE - 1, HEADER_SIZE} \cup
    {HEADER_SIZE + AES_BLOCK_SIZE * k + d : k \in 0..MaxCipherBlocks, d \in {1, AES_BLOCK_SIZE - 1}}

GoodSizes == {HEADER_SIZE + AES_BLOCK_SIZE * k : k \in 1..MaxCipherBlocks}

Files ==
    {NoFile} \cup
    {[NoFile EXCEPT !.present = TRUE, !.encoding = e] : e \in {"not_utf8", "bad_base64"}} \cup
    {[NoFile EXCEPT !.present = TRUE, !.size = n] : n \in BadSizes} \cup
    {[present |-> TRUE, encoding |-> "ok", size |-> n, key_password |-> k,
      plaintext |-> p, garbage |-> g] :
        n \in GoodSizes, k \in Passwords,
        p \in {BadPadding, BadUtf8} \cup {TextOf(doc) : doc \in Docs},
        g \in {BadPadding, BadUtf8, TextOf(<<EmptyBlock>>)}}

CliInit ==
    /\ pc = "cli_read"
    /\ file \in Files
    /\ args \in [password : Passwords, format : Formats, preview : BOOLEAN]
    /\ console = ""
    /\ exit_code = 0
    /\ outcome = Running
    /\ all_tables = NoTables
    /\ blocks = <<>>
    /\ unknown_table_count = 0
    /\ steps = <<>>
    /\ warnings = <<>>
    /\ url_in = <<>>
    /\ url_out = <<>>

\* cli.py line 147 and the handler of lines 184-186
ReadFile ==
    /\ pc = "cli_read"
    /\ IF file.present
       THEN /\ pc' = "cli_decrypt"
            /\ UNCHANGED <<console, exit_code>>
       ELSE /\ pc' = "cli_exit"
            /\ console' = MSG_FILE_NOT_FOUND
            /\ exit_code' = 1
    /\ UNCHANGED <<file, args, outcome, parseVars, urlVars>>

\* cli.py line 151 and the handler of lines 187-189
Decrypt ==
    /\ pc = "cli_decrypt"
    /\ \E r \in {decrypt_and_parse(file, args.password)} :
       /\ outcome' = r.outcome
       /\ all_tables' = r.tables
       /\ IF r.outcome.kind = "return"
          THEN /\ pc' = "cli_output"
               /\ UNCHANGED <<console, exit_code>>
          ELSE /\ pc' = "cli_exit"
               /\ console' = r.outcome.msg
               /\ exit_code' = 1
    /\ UNCHANGED <<file, args, blocks, unknown_table_count, steps, warnings, urlVars>>

\* cli.py lines 153-182 and the handlers of lines 187-193
Output ==
    /\ pc = "cli_output"
    /\ \E r \in {AfterDecrypt(args, all_tables)} :
       IF r.raised = ""
       THEN /\ console' = r.console
            /\ exit_code' = 0
       ELSE /\ console' = IF r.raised \in ValueErrors THEN r.raised ELSE MSG_CLI_UNKNOWN
            /\ exit_code' = 1
    /\ pc' = "cli_exit"
    /\ UNCHANGED <<file, args, outcome, parseVars, urlVars>>

CliNext == ReadFile \/ Decrypt \/ Output

SpecCli == CliInit /\ [][CliNext]_vars

----------------------------------------------------------------------------
(* Properties of parse_decrypted_content (SpecParse)                       *)

IsInfix(sub, seq) ==
    \E o \in 0..(Len(seq) - Len(sub)) : \A k \in 1..Len(sub) : seq[o + k] = sub[k]

\* the entries that the blocks named n produced, in block order
RECURSIVE EntriesInOrder(_, _)
EntriesInOrder(done, n) ==
    IF done = <<>> THEN <<>>
    ELSE (IF Head(done).name = n THEN Head(done).entries ELSE <<>>)
            \o EntriesInOrder(Tail(done), n)

Contributes(step) == step.kind = "parsed" /\ step.entries # <<>>

NoDataRaised == outcome = [kind |-> "ValueError", msg |-> MSG_NO_DATA]

\* C1: parse_decrypted_content returns a non-empty mapping whose tables all
\* hold at least one record, or raises the no-data error; when every block is
\* empty, too small or yields no record it raises and returns no empty mapping
C1_ResultNonEmptyOrNoData ==
    /\ \A n \in DOMAIN all_tables : all_tables[n] # <<>>
    /\ pc = "parse_done" =>
          /\ \/ outcome.kind = "return" /\ DOMAIN all_tables # {}
             \/ NoDataRaised /\ DOMAIN all_tables = {}
          /\ (\A i \in 1..Len(blocks) :
                 \/ blocks[i].header = <<>>
                 \/ CountSemicolons(blocks[i]) < 2
                 \/ steps[i].entries = <<>>) => NoDataRaised

C1_Witness ==
    /\ pc = "parse_done"
    /\ NoDataRaised
    /\ \E i, j \in 1..Len(steps) :
          /\ steps[i].kind = "too_small"
          /\ steps[j].kind = "parsed"
          /\ blocks[j].rows # <<>>

\* C2: a block that raises contributes nothing and does not stop the loop:
\* the records of every well-formed block before or after it are in the
\* Result, and its error never reaches the caller
C2_MalformedBlockSkipped ==
    \A j \in 1..Len(steps) :
        steps[j].kind = "raised" =>
            /\ \A i \in 1..Len(steps) :
                  Contributes(steps[i]) =>
                      /\ steps[i].name \in DOMAIN all_tables
                      /\ IsInfix(steps[i].entries, all_tables[steps[i].name])
            /\ pc = "parse_done" => (outcome.kind = "return" \/ NoDataRaised)

\* C9: the Result accumulates, under each table name and in source order, the
\* records of every block that produced some, and no later block removes them
C9_ResultAccumulates ==
    /\ DOMAIN all_tables = {steps[i].name : i \in {k \in 1..Len(steps) : Contributes(steps[k])}}
    /\ \A n \in DOMAIN all_tables : all_tables[n] = EntriesInOrder(steps, n)

\* the blocks that reach the unknown branch: large enough, with a header that
\* can be read, that holds no fingerprint and is not the row-count marker
IsUnknownBlock(block) ==
    /\ block.header # <<>>
    /\ CountSemicolons(block) >= 2
    /\ ~HeaderRaises(block)
    /\ \A i \in 1..Len(TABLE_SCHEMA) :
          ~(Range(TABLE_SCHEMA[i].fingerprint) \subseteq Range(block.header))
    /\ block.header # <<"24">>

UnknownSeen(i) == Cardinality({k \in 1..i : IsUnknownBlock(blocks[k])})

UnknownNames == {"unknown_data_" \o ToString(n) : n \in 1..(MaxBlocks + 1)}

\* C10: an unknown block is named unknown_data_N, N the 1-based count of
\* unknown blocks so far; too-small blocks and the marker block do not advance
\* the count, known blocks get no unknown name, and no two unknown blocks of
\* one call share a name
C10_UnknownNaming ==
    /\ unknown_table_count = UnknownSeen(Len(blocks))
    /\ \A i \in 1..Len(steps) :
          IF IsUnknownBlock(blocks[i])
          THEN steps[i].name = "unknown_data_" \o ToString(UnknownSeen(i))
          ELSE steps[i].name \notin UnknownNames
    /\ \A i, j \in 1..Len(steps) :
          (i # j /\ IsUnknownBlock(blocks[i]) /\ IsUnknownBlock(blocks[j]))
              => steps[i].name # steps[j].name

C10_Witness ==
    /\ Len(steps) = 3
    /\ steps[1].name = "unknown_data_1"
    /\ steps[2].kind \in {"marker", "too_small"}
    /\ steps[3].name = "unknown_data_2"

\* the cells of the inputs that _safe_b64_decode turns into ""
CellSet == UNION {Range(row) : row \in UNION {Range(RowsFor(h)) : h \in Headers}}

EmptyCells == {c \in CellSet : safe_b64_decode(c) = <<>>}

\* the cell of the field is absent from the row or decodes to empty
FieldIsEmpty(headers, row, field) ==
    \/ ~RowGet(headers, row, field).present
    \/ RowGet(headers, row, field).value \in EmptyCells

LoginsFields == Range(TABLE_SCHEMA[1].useful_fields)

IsLoginsStep(i) == steps[i].kind = "parsed" /\ steps[i].name = "logins"

RowsWhere(i, P(_)) == {k \in 1..Len(blocks[i].rows) : P(blocks[i].rows[k])}

\* C5 as stated: in a logins block, a row whose title cell is absent, empty
\* or the null sentinel produces no Record, whatever its other fields hold
C5_TitlelessRowDropped ==
    \A i \in 1..Len(steps) :
        IsLoginsStep(i) =>
            LET HasTitle(row) == ~FieldIsEmpty(blocks[i].header, row, "title")
            IN Len(steps[i].entries) = Cardinality(RowsWhere(i, HasTitle))

\* C5 as amended: in a logins block, a row produces no Record exactly when
\* every useful field is absent or decodes to empty; a row without a title
\* whose other useful fields hold a value produces a Record without title
C5_RowDroppedOnlyWhenAllEmpty ==
    \A i \in 1..Len(steps) :
        IsLoginsStep(i) =>
            LET HasValue(row) ==
                    \E f \in LoginsFields : ~FieldIsEmpty(blocks[i].header, row, f)
                Untitled(row) ==
                    HasValue(row) /\ FieldIsEmpty(blocks[i].header, row, "title")
            IN /\ Len(steps[i].entries) = Cardinality(RowsWhere(i, HasValue))
               /\ Cardinality({k \in 1..Len(steps[i].entries) :
                                  "title" \notin DOMAIN steps[i].entries[k]})
                     = Cardinality(RowsWhere(i, Untitled))

C5_Witness ==
    \E i \in 1..Len(steps) :
        /\ IsLoginsStep(i)
        /\ \E k \in 1..Len(blocks[i].rows) : blocks[i].rows[k] = L_NOTITLE
        /\ \E k \in 1..Len(blocks[i].rows) : blocks[i].rows[k] = L_BLANK
        /\ \E k \in 1..Len(steps[i].entries) :
              /\ "title" \notin DOMAIN steps[i].entries[k]
              /\ "username_value" \in DOMAIN steps[i].entries[k]

\* the useful-field list of the table named n
UsefulFieldsOf(n) ==
    IF \E m \in 1..Len(TABLE_SCHEMA) : TABLE_SCHEMA[m].name = n
    THEN Range(TABLE_SCHEMA[CHOOSE m \in 1..Len(TABLE_SCHEMA) : TABLE_SCHEMA[m].name = n].useful_fields)
    ELSE UNION {Range(blocks[i].header) : i \in {k \in 1..Len(steps) : steps[k].name = n}}

\* C8: every Record of the Result is non-empty, has only field names of its
\* table's useful-field list, and holds no empty value (no empty string,
\* empty list or null left by a transform)
C8_RecordsHoldNoEmptyValue ==
    \A n \in DOMAIN all_tables :
        \A k \in 1..Len(all_tables[n]) :
            /\ DOMAIN all_tables[n][k] # {}
            /\ DOMAIN all_tables[n][k] \subseteq UsefulFieldsOf(n)
            /\ \A f \in DOMAIN all_tables[n][k] : ~IsEmptyValue(all_tables[n][k][f])

----------------------------------------------------------------------------
(* Property of clean_android_url (SpecUrl)                                 *)

\* the substring after the last "@"; the whole string when it has none
AfterLastAt(s) ==
    LET ats == {i \in 1..Len(s) : s[i] = "@"} IN
    IF ats = {} THEN s
    ELSE Slice(s, (CHOOSE i \in ats : \A k \in ats : k <= i) + 1, Len(s))

\* C6: for a value that starts with android://, clean_android_url returns the
\* substring after the last "@", dots in the package identifier included
C6_AndroidUrlBecomesPackage ==
    (pc = "url_done" /\ StartsWith(url_in, ANDROID_SCHEME))
        => url_out = AfterLastAt(url_in)

----------------------------------------------------------------------------
(* Properties of decrypt_and_parse and _process_decryption (SpecCli)       *)

Decrypted == IF args.password = file.key_password THEN file.plaintext ELSE file.garbage

\* some step of the envelope fails: the outer text or its base64, a buffer
\* shorter than 36 bytes, a ciphertext that is empty or not a multiple of 16
\* bytes, the padding, or the UTF-8 of the unpadded bytes
EnvelopeFails ==
    /\ file.present
    /\ \/ file.encoding # "ok"
       \/ file.size < 36
       \/ file.size = 36
       \/ (file.size - 36) % 16 # 0
       \/ ~Decrypted.padding_ok
       \/ ~Decrypted.utf8_ok

DecryptCalled == pc \in {"cli_output", "cli_exit"} /\ file.present

\* C3: three failures are told apart: no input file; bad password or corrupt
\* file; and nothing found, raised when the envelope decrypts to valid text
\* and the parser finds no record, with an error of its own
C3_ThreeFailuresDistinct ==
    /\ (pc = "cli_exit" /\ ~file.present) => console = MSG_FILE_NOT_FOUND
    /\ (DecryptCalled /\ EnvelopeFails) => outcome.msg = MSG_DECRYPT_FAILED
    /\ (DecryptCalled /\ ~EnvelopeFails /\ outcome.kind = "ValueError")
          => /\ outcome.msg = MSG_NO_DATA
             /\ outcome.msg # MSG_DECRYPT_FAILED

\* C4: when a step of the envelope fails, decrypt_and_parse returns no Result
\* and raises an error with one fixed message, whatever the step
C4_EnvelopeFailureIsUniform ==
    (DecryptCalled /\ EnvelopeFails) =>
        /\ outcome = [kind |-> "ValueError", msg |-> MSG_DECRYPT_FAILED]
        /\ all_tables = NoTables

C4_Witness ==
    /\ pc = "cli_exit"
    /\ file.size \in GoodSizes
    /\ args.password # file.key_password
    /\ file.plaintext.utf8_ok
    /\ ~file.garbage.padding_ok
    /\ outcome.msg = MSG_DECRYPT_FAILED

\* C7: whenever decrypt_and_parse returns a Result, the preview and the three
\* save functions process it without raising and _process_decryption ends on
\* its success path
C7_ConsumersAcceptResult ==
    (pc = "cli_exit" /\ outcome.kind = "return") =>
        /\ exit_code = 0
        /\ console \in {MSG_SAVED, MSG_PREVIEW_DONE}

====
